---- MODULE Spec2Model ----
(***************************************************************************)
(* A model of gimmemotifs/commands/pfmscan.py: the formatting of one match *)
(* (format_line), the three line generators (scan_table, scan_score_table, *)
(* scan_normal) and the composition root command_scan.                     *)
(*                                                                         *)
(* Text is a tuple of string chunks (single characters wherever the code   *)
(* inspects them: sequence identifiers, numbers); an output line is the    *)
(* tuple of its tab-separated cells.  None is Python's None.               *)
(***************************************************************************)
EXTENDS Integers, Sequences, FiniteSets, TLC

VARIABLES
    fl,        \* the arguments of one format_line call
    bedline,   \* format_line(..., bed=True) of fl, or None before the call
    gffline,   \* format_line(..., bed=False) of fl, or None before the call
    args,      \* the keyword arguments of command_scan
    fa,        \* as_fasta(inputfile, genome): the ordered sequence collection
    motifs,    \* read_motifs(pfmfile): the ordered motif collection
    engine,    \* what the scanning backend returns when it is asked
    pc,        \* the position of the running generator
    it,        \* the generator command_scan selected
    log,       \* engine calls and yielded lines, in program order
    result_it, \* the items the backend iterator has not handed out yet
    cur        \* the loop variables of the running generator

vars == <<fl, bedline, gffline, args, fa, motifs, engine, pc, it, log, result_it, cur>>

None == "None"

\* no line yet
NoLine == <<>>

\* ------------------------------------------------------------------ bounds

MaxIdLen == 6
MaxSeqs == 2
MaxMotifs == 2
MaxMatches == 2

\* -------------------------------------------------------------------- text

Min(a, b) == IF a < b THEN a ELSE b

Abs(n) == IF n < 0 THEN 0 - n ELSE n

Digits == <<"0", "1", "2", "3", "4", "5", "6", "7", "8", "9">>

IsDigit(c) == \E d \in 1..10 : Digits[d] = c

DigitVal(c) == (CHOOSE d \in 1..10 : Digits[d] = c) - 1

RECURSIVE NatStr(_)
NatStr(n) == IF n < 10 THEN <<Digits[n + 1]>> ELSE NatStr(n \div 10) \o <<Digits[(n % 10) + 1]>>

\* str(n) of an int
Str(n) == IF n < 0 THEN <<"-">> \o NatStr(0 - n) ELSE NatStr(n)

RECURSIVE ParseInt(_)
\* int(text) of a run of decimal digits
ParseInt(t) ==
    IF Len(t) = 0 THEN 0
    ELSE 10 * ParseInt(SubSeq(t, 1, Len(t) - 1)) + DigitVal(t[Len(t)])

\* s[a:b] of Python for 0 <= a <= b: cut at the end of s, never padded
Slice(s, a, b) == SubSeq(s, a + 1, Min(b, Len(s)))

\* str(x) of a float that is a whole number of tenths, x = t / 10
FloatStr(t) ==
    (IF t < 0 THEN <<"-">> ELSE <<>>) \o NatStr(Abs(t) \div 10) \o <<".">>
        \o <<Digits[(Abs(t) % 10) + 1]>>

\* ------------------------------------------------------------- format_line

IsSpace(c) == c \in {" ", "\t"}

\* the class [^\s:]
IsTokenChar(c) == ~IsSpace(c) /\ c # ":"

RECURSIVE TokenRunEnd(_, _)
\* the last index of the longest run of [^\s:] that starts at i (i - 1: none)
TokenRunEnd(s, i) ==
    IF i <= Len(s) /\ IsTokenChar(s[i]) THEN TokenRunEnd(s, i + 1) ELSE i - 1

RECURSIVE DigitRunEnd(_, _)
\* the last index of the longest run of \d that starts at i (i - 1: none)
DigitRunEnd(s, i) ==
    IF i <= Len(s) /\ IsDigit(s[i]) THEN DigitRunEnd(s, i + 1) ELSE i - 1

\* ([^\s:]+):(\d+)-(\d+) matches at index i of s.  Both greedy runs end at a
\* character outside their class, so a shorter run is never followed by the
\* literal the pattern wants next: no backtracking finds another match.
MatchesAt(s, i) ==
    LET t == TokenRunEnd(s, i)
        d == DigitRunEnd(s, t + 2)
    IN  /\ t >= i
        /\ t + 1 <= Len(s)
        /\ s[t + 1] = ":"
        /\ d >= t + 2
        /\ d + 2 <= Len(s)
        /\ s[d + 1] = "-"
        /\ IsDigit(s[d + 2])

\* seq_p.match(seq_id): the pattern anchored at the start of the identifier
SeqPMatch(s) ==
    IF Len(s) >= 1 /\ MatchesAt(s, 1)
    THEN LET t == TokenRunEnd(s, 1)
             d == DigitRunEnd(s, t + 2)
         IN  [found |-> TRUE, chrom |-> SubSeq(s, 1, t),
              start |-> ParseInt(SubSeq(s, t + 2, d))]
    ELSE [found |-> FALSE]

\* seq_p.search(seq_id): the leftmost match with its groups 1 and int(2), or
\* no match (found = FALSE)
SeqPSearch(s) ==
    IF \E i \in 1..Len(s) : MatchesAt(s, i)
    THEN LET i == CHOOSE k \in 1..Len(s) :
                      MatchesAt(s, k) /\ \A l \in 1..(k - 1) : ~MatchesAt(s, l)
             t == TokenRunEnd(s, i)
             d == DigitRunEnd(s, t + 2)
         IN  [found |-> TRUE, chrom |-> SubSeq(s, i, t),
              start |-> ParseInt(SubSeq(s, t + 2, d))]
    ELSE [found |-> FALSE]

strandmap(strand) == IF strand = 1 THEN <<"+">> ELSE <<"-">>

\* format_line with bed=True
FormatLineBed(seq_id, motif, score, pos, strand) ==
    LET m == SeqPSearch(seq_id)
    IN  IF m.found
        THEN <<m.chrom, Str(m.start + pos), Str(m.start + pos + motif.len),
               motif.id, FloatStr(score), strandmap(strand)>>
        ELSE <<seq_id, Str(pos), Str(pos + motif.len),
               motif.id, FloatStr(score), strandmap(strand)>>

\* the annotation line with its start left 0-based
FormatLineGffZeroBased(seq, seq_id, motif, score, pos, strand) ==
    <<seq_id, <<"pfmscan">>, <<"misc_feature">>, Str(pos), Str(pos + motif.len),
      FloatStr(score), strandmap(strand), <<".">>,
      <<"motif_name \"">> \o motif.id \o <<"\" ; motif_instance \"">>
          \o Slice(seq, pos, pos + motif.len) \o <<"\"">> >>

\* format_line with bed=False
FormatLineGff(seq, seq_id, motif, score, pos, strand) ==
    <<seq_id, <<"pfmscan">>, <<"misc_feature">>, Str(pos + 1), Str(pos + motif.len),
      FloatStr(score), strandmap(strand), <<".">>,
      <<"motif_name \"">> \o motif.id \o <<"\" ; motif_instance \"">>
          \o Slice(seq, pos, pos + motif.len) \o <<"\"">> >>

format_line(seq, seq_id, motif, score, pos, strand, bed) ==
    IF bed THEN FormatLineBed(seq_id, motif, score, pos, strand)
    ELSE FormatLineGff(seq, seq_id, motif, score, pos, strand)

\* -------------------------------------------------------------- the inputs

\* every text of 1..n characters over the alphabet A
Texts(A, n) == UNION {[1..k -> A] : k \in 1..n}

\* the characters identifiers are drawn from: a letter, the two separators of
\* the pattern, a digit and a blank
IdAlphabet == {"c", ":", "-", "1", " "}

\* the k-th match the backend can report: Hit(1) is 7.5 at 0 on +, Hit(2) is
\* -1.0 at 1 on -, ...
Hit(k) == [score |-> 75 - 85 * (k - 1), pos |-> k - 1,
           strand |-> IF k % 2 = 1 THEN 1 ELSE 0 - 1]

\* the j-th motif of the motif file; len is len(motif)
MotifAt(j) == [id |-> <<"M", Digits[j + 1]>>, len |-> j + 1]

SeqIds ==
    << <<"c", ":", "1", "-", "9">>, <<"s", "2">>, <<"d", ":", "0", "-", "4">>,
       <<"s", "4">> >>

\* the i-th sequence of the input
SeqAt(i) == [id |-> SeqIds[i],
             seq |-> SubSeq(<<"A", "C", "G", "T", "A", "C", "G", "T">>, i, i + 3)]

\* ------------------------------------------- format_line, called on its own

InitFormat ==
    /\ fl \in [seq_id : Texts(IdAlphabet, MaxIdLen), seq : {SeqAt(1).seq},
               motif : {MotifAt(1)}, hit : {Hit(k) : k \in 1..MaxMatches}]
    /\ bedline = NoLine
    /\ gffline = NoLine
    /\ args = None
    /\ fa = <<>>
    /\ motifs = <<>>
    /\ engine = None
    /\ pc = "format"
    /\ it = None
    /\ log = <<>>
    /\ result_it = <<>>
    /\ cur = None

pipeline == <<args, fa, motifs, engine, pc, it, log, result_it, cur>>

\* format_line(seq, seq_id, motif, score, pos, strand, bed=True)
FormatBed ==
    /\ pc = "format"
    /\ bedline = NoLine
    /\ bedline' = format_line(fl.seq, fl.seq_id, fl.motif, fl.hit.score, fl.hit.pos,
                              fl.hit.strand, TRUE)
    /\ UNCHANGED <<fl, gffline, pipeline>>

\* format_line(seq, seq_id, motif, score, pos, strand): an annotation line
FormatGff ==
    /\ pc = "format"
    /\ gffline = NoLine
    /\ gffline' = format_line(fl.seq, fl.seq_id, fl.motif, fl.hit.score, fl.hit.pos,
                              fl.hit.strand, FALSE)
    /\ UNCHANGED <<fl, bedline, pipeline>>

NextFormat == FormatBed \/ FormatGff

SpecFormat == InitFormat /\ [][NextFormat]_vars

\* ------------------------------------------------- the scanning backends

\* The value of cell (i, j) of a backend result: v where the backend found
\* something for sequence i and motif j, the empty value elsewhere.
Cell(e, i, j, v, empty) == IF i \in e.seqs /\ j \in e.motifs THEN v ELSE empty

\* s.count(fa, nreport, scan_rc): per sequence, one count per motif
ScannerCount(e, f, ms) ==
    [i \in 1..Len(f) |-> [j \in 1..Len(ms) |-> Cell(e, i, j, e.count, 0)]]

\* s.best_score(fa, scan_rc, zscore, gc): per sequence, one score per motif,
\* in units of 10^-7
ScannerBestScore(e, f, ms) ==
    [i \in 1..Len(f) |-> [j \in 1..Len(ms) |-> Cell(e, i, j, e.score, 0)]]

\* s.scan(fa, nreport, scan_rc, zscore, gc): per sequence, per motif, the
\* matches as (score, pos, strand)
ScannerScan(e, f, ms) ==
    [i \in 1..Len(f) |-> [j \in 1..Len(ms) |->
        Cell(e, i, j, [k \in 1..Len(e.hits) |->
                          <<e.hits[k].score, e.hits[k].pos, e.hits[k].strand>>], <<>>)]]

\* scan_it_moods(..., table=True): (seq_id, counts) per sequence
MoodsTable(e, f, ms) ==
    [i \in 1..Len(f) |-> <<f[i].id, [j \in 1..Len(ms) |-> Cell(e, i, j, e.count, 0)]>>]

\* scan_it_moods(..., table=False): (motif, d) per motif, d the items of a
\* dictionary seq_id -> matches as (pos, score, strand)
MoodsMatches(e, f, ms) ==
    [j \in 1..Len(ms) |-> <<ms[j], [i \in 1..Len(f) |->
        <<f[i].id, Cell(e, i, j, [k \in 1..Len(e.hits) |->
                          <<e.hits[k].pos, e.hits[k].score, e.hits[k].strand>>], <<>>)>>]>>]

\* fa[seq_id]
FaGet(f, seq_id) == f[CHOOSE i \in 1..Len(f) : f[i].id = seq_id].seq

\* ------------------------------------------------------------------ events

Call(op, kw) == [ev |-> "call", op |-> op, kw |-> kw]

Yield(by, line) == [ev |-> "yield", by |-> by, line |-> line]

\* ------------------------------------------------------------ command_scan

\* s.set_genome(genome=genome), when a genome is given
GenomeCalls(a) ==
    IF a.genome # None THEN <<Call("set_genome", [genome |-> a.genome])>> ELSE <<>>

\* the set_background calls of command_scan, in program order
BackgroundCalls(a) ==
    (IF a.genome # None
     THEN <<Call("set_background", [genome |-> a.genome, fname |-> a.bgfile,
                                    size |-> "fa.median_length()", gc |-> a.gcnorm])>>
     ELSE <<>>)
    \o (IF a.bgfile # None
        THEN <<Call("set_background", [genome |-> a.genome, fname |-> a.bgfile,
                                       size |-> "fa.median_length()"])>>
        ELSE <<>>)

\* set_threshold called in every mode
ThresholdCallsAlways(a) ==
    <<Call("set_threshold", [fpr |-> a.fpr, threshold |-> a.cutoff])>>

\* the set_threshold call of command_scan
ThresholdCalls(a) ==
    IF ~a.score_table
    THEN <<Call("set_threshold", [fpr |-> a.fpr, threshold |-> a.cutoff])>>
    ELSE <<>>

\* the dispatch with score_table tested first
SelectStrategyScoreFirst(a) ==
    IF a.score_table THEN "scan_score_table"
    ELSE IF a.table THEN "scan_table"
    ELSE "scan_normal"

\* the generator command_scan iterates
SelectStrategy(a) ==
    IF a.table THEN "scan_table"
    ELSE IF a.score_table THEN "scan_score_table"
    ELSE "scan_normal"

\* motifs = read_motifs(pfmfile); fa = as_fasta(...); s = Scanner(ncpus);
\* s.set_motifs(pfmfile)
NewScanner ==
    /\ pc = "start"
    /\ log' = log \o <<Call("set_motifs", [motifs |-> "pfmfile"])>>
    /\ pc' = "genome"
    /\ UNCHANGED <<fl, bedline, gffline, args, fa, motifs, engine, it, result_it, cur>>

SetGenome ==
    /\ pc = "genome"
    /\ log' = log \o GenomeCalls(args)
    /\ pc' = "background"
    /\ UNCHANGED <<fl, bedline, gffline, args, fa, motifs, engine, it, result_it, cur>>

SetBackground ==
    /\ pc = "background"
    /\ log' = log \o BackgroundCalls(args)
    /\ pc' = "threshold"
    /\ UNCHANGED <<fl, bedline, gffline, args, fa, motifs, engine, it, result_it, cur>>

SetThreshold ==
    /\ pc = "threshold"
    /\ log' = log \o ThresholdCalls(args)
    /\ pc' = "dispatch"
    /\ UNCHANGED <<fl, bedline, gffline, args, fa, motifs, engine, it, result_it, cur>>

\* it = scan_table(...) / scan_score_table(...) / scan_normal(...): the
\* generator is created; its body runs when the first row is pulled
Dispatch ==
    /\ pc = "dispatch"
    /\ it' = SelectStrategy(args)
    /\ pc' = it'
    /\ UNCHANGED <<fl, bedline, gffline, args, fa, motifs, engine, log, result_it, cur>>

\* -------------------------------------------------------------- scan_table

\* the header without its leading tab
HeaderLineNoLead(ms) == [j \in 1..Len(ms) |-> ms[j].id]

IsNonZero(n) == n # 0

\* a row that leaves out the zero counts
CountRowLineNoZeros(label, counts) ==
    LET kept == SelectSeq(counts, IsNonZero)
    IN  <<label>> \o [j \in 1..Len(kept) |-> Str(kept[j])]

\* "\t{}".format("\t".join([m.id for m in motifs])): an empty first cell, then
\* the motif ids
HeaderLine(ms) == <<<<>>>> \o [j \in 1..Len(ms) |-> ms[j].id]

\* "{}\t{}".format(label, "\t".join([str(x) for x in counts]))
CountRowLine(label, counts) == <<label>> \o [j \in 1..Len(counts) |-> Str(counts[j])]

TableHeader ==
    /\ pc = "scan_table"
    /\ log' = log \o <<Yield("scan_table", HeaderLine(motifs))>>
    /\ pc' = "table_call"
    /\ UNCHANGED <<fl, bedline, gffline, args, fa, motifs, engine, it, result_it, cur>>

\* result_it = scan_it_moods(..., table)
TableCallMoods ==
    /\ pc = "table_call"
    /\ args.moods
    /\ log' = log \o <<Call("scan_it_moods", [cutoff |-> args.cutoff,
                                               bgfile |-> args.bgfile, table |-> TRUE])>>
    /\ result_it' = MoodsTable(engine, fa, motifs)
    /\ pc' = "table_moods_rows"
    /\ UNCHANGED <<fl, bedline, gffline, args, fa, motifs, engine, it, cur>>

\* for seq_id, counts in result_it: yield ...
TableMoodsRow ==
    /\ pc = "table_moods_rows"
    /\ IF result_it # <<>>
       THEN /\ log' = log \o <<Yield("scan_table",
                                     CountRowLine(Head(result_it)[1], Head(result_it)[2]))>>
            /\ result_it' = Tail(result_it)
            /\ pc' = pc
       ELSE /\ pc' = "done"
            /\ UNCHANGED <<log, result_it>>
    /\ UNCHANGED <<fl, bedline, gffline, args, fa, motifs, engine, it, cur>>

\* result_it = s.count(fa, nreport, scan_rc)
TableCallCount ==
    /\ pc = "table_call"
    /\ ~args.moods
    /\ log' = log \o <<Call("count", [fa |-> "fa"])>>
    /\ result_it' = ScannerCount(engine, fa, motifs)
    /\ cur' = [i |-> 0]
    /\ pc' = "table_rows"
    /\ UNCHANGED <<fl, bedline, gffline, args, fa, motifs, engine, it>>

\* for i, counts in enumerate(result_it): yield ... fa.ids[i] ...
TableRow ==
    /\ pc = "table_rows"
    /\ IF result_it # <<>>
       THEN /\ log' = log \o <<Yield("scan_table",
                                     CountRowLine(fa[cur.i + 1].id, Head(result_it)))>>
            /\ result_it' = Tail(result_it)
            /\ cur' = [i |-> cur.i + 1]
            /\ pc' = pc
       ELSE /\ pc' = "done"
            /\ UNCHANGED <<log, result_it, cur>>
    /\ UNCHANGED <<fl, bedline, gffline, args, fa, motifs, engine, it>>

\* -------------------------------------------------------- scan_score_table

RECURSIVE Pow10(_)
Pow10(n) == IF n = 0 THEN 1 ELSE 10 * Pow10(n - 1)

\* n / unit rounded to the nearest integer, a tie to the even one
RoundHalfEven(n, unit) ==
    LET q == n \div unit
        r == n % unit
    IN  IF 2 * r > unit \/ (2 * r = unit /\ q % 2 = 1) THEN q + 1 ELSE q

RECURSIVE PadLeft(_, _, _)
PadLeft(t, width, c) == IF Len(t) >= width THEN t ELSE PadLeft(<<c>> \o t, width, c)

\* The format specification of a score cell, "4f": [[fill]align][sign][#][0]
\* [width][.precision][type].  The 4 is the minimum width; no precision is
\* given.
ScoreFormatSpec == [width |-> 4, precision |-> None, type |-> "f"]

\* format(x, spec) for type "f", x a float given in units of 10^-7: precision
\* digits after the point (6 when the specification gives none), right-aligned
\* in width
FormatFloat(x, spec) ==
    LET prec == IF spec.precision = None THEN 6 ELSE spec.precision
        q == RoundHalfEven(Abs(x), Pow10(7 - prec))
        body == (IF x < 0 THEN <<"-">> ELSE <<>>) \o NatStr(q \div Pow10(prec))
                    \o (IF prec > 0
                        THEN <<".">> \o PadLeft(NatStr(q % Pow10(prec)), prec, "0")
                        ELSE <<>>)
    IN  PadLeft(body, spec.width, " ")

\* "{}\t{}".format(label, "\t".join(["{:4f}".format(x) for x in scores]))
ScoreRowLine(label, scores) ==
    <<label>> \o [j \in 1..Len(scores) |-> FormatFloat(scores[j], ScoreFormatSpec)]

\* s.set_threshold(threshold=0.0, gc=gcnorm)
ScoreSetThreshold ==
    /\ pc = "scan_score_table"
    /\ log' = log \o <<Call("set_threshold", [threshold |-> "0.0", gc |-> args.gcnorm])>>
    /\ pc' = "score_call"
    /\ UNCHANGED <<fl, bedline, gffline, args, fa, motifs, engine, it, result_it, cur>>

\* result_it = s.best_score(fa, scan_rc, zscore=zscore, gc=gcnorm)
ScoreCall ==
    /\ pc = "score_call"
    /\ log' = log \o <<Call("best_score", [fa |-> "fa", zscore |-> args.zscore,
                                            gc |-> args.gcnorm])>>
    /\ result_it' = ScannerBestScore(engine, fa, motifs)
    /\ cur' = [i |-> 0]
    /\ pc' = "score_header"
    /\ UNCHANGED <<fl, bedline, gffline, args, fa, motifs, engine, it>>

ScoreHeader ==
    /\ pc = "score_header"
    /\ log' = log \o <<Yield("scan_score_table", HeaderLine(motifs))>>
    /\ pc' = "score_rows"
    /\ UNCHANGED <<fl, bedline, gffline, args, fa, motifs, engine, it, result_it, cur>>

\* for i, scores in enumerate(result_it): yield ... fa.ids[i] ...
ScoreRow ==
    /\ pc = "score_rows"
    /\ IF result_it # <<>>
       THEN /\ log' = log \o <<Yield("scan_score_table",
                                     ScoreRowLine(fa[cur.i + 1].id, Head(result_it)))>>
            /\ result_it' = Tail(result_it)
            /\ cur' = [i |-> cur.i + 1]
            /\ pc' = pc
       ELSE /\ pc' = "done"
            /\ UNCHANGED <<log, result_it, cur>>
    /\ UNCHANGED <<fl, bedline, gffline, args, fa, motifs, engine, it>>

\* -------------------------------------------------------------- scan_normal

\* the pairs of zip(motifs, result), last motif first
ZipReversed(ms, result) ==
    LET n == Min(Len(ms), Len(result))
    IN  [j \in 1..n |-> <<ms[n + 1 - j], result[n + 1 - j]>>]

\* zip(motifs, result)
Zip(ms, result) == [j \in 1..Min(Len(ms), Len(result)) |-> <<ms[j], result[j]>>]

\* result_it = scan_it_moods(..., table)
NormalCallMoods ==
    /\ pc = "scan_normal"
    /\ args.moods
    /\ log' = log \o <<Call("scan_it_moods", [cutoff |-> args.cutoff,
                                               bgfile |-> args.bgfile, table |-> FALSE])>>
    /\ result_it' = MoodsMatches(engine, fa, motifs)
    /\ pc' = "moods_motif"
    /\ UNCHANGED <<fl, bedline, gffline, args, fa, motifs, engine, it, cur>>

\* for motif, d in result_it:
MoodsNextMotif ==
    /\ pc = "moods_motif"
    /\ IF result_it # <<>>
       THEN /\ cur' = [motif |-> Head(result_it)[1], items |-> Head(result_it)[2]]
            /\ result_it' = Tail(result_it)
            /\ pc' = "moods_items"
       ELSE /\ pc' = "done"
            /\ UNCHANGED <<result_it, cur>>
    /\ UNCHANGED <<fl, bedline, gffline, args, fa, motifs, engine, it, log>>

\* for seq_id, matches in d.items():
MoodsNextItem ==
    /\ pc = "moods_items"
    /\ IF cur.items # <<>>
       THEN /\ cur' = [motif |-> cur.motif, items |-> Tail(cur.items),
                       seq_id |-> Head(cur.items)[1], matches |-> Head(cur.items)[2]]
            /\ pc' = "moods_matches"
       ELSE /\ pc' = "moods_motif"
            /\ UNCHANGED cur
    /\ UNCHANGED <<fl, bedline, gffline, args, fa, motifs, engine, it, log, result_it>>

\* the line of one match of the moods backend: pos, score, strand = match
MoodsLine(f, seq_id, motif, match, bed) ==
    format_line(FaGet(f, seq_id), seq_id, motif, match[2], match[1], match[3], bed)

\* for pos, score, strand in matches: yield format_line(fa[seq_id], ...)
MoodsYield ==
    /\ pc = "moods_matches"
    /\ IF cur.matches # <<>>
       THEN /\ log' = log \o <<Yield("scan_normal",
                   MoodsLine(fa, cur.seq_id, cur.motif, Head(cur.matches), args.bed))>>
            /\ cur' = [cur EXCEPT !.matches = Tail(cur.matches)]
            /\ pc' = pc
       ELSE /\ pc' = "moods_items"
            /\ UNCHANGED <<log, cur>>
    /\ UNCHANGED <<fl, bedline, gffline, args, fa, motifs, engine, it, result_it>>

\* result_it = s.scan(fa, nreport, scan_rc, zscore, gc=gcnorm)
NormalCallScan ==
    /\ pc = "scan_normal"
    /\ ~args.moods
    /\ log' = log \o <<Call("scan", [fa |-> "fa", zscore |-> args.zscore,
                                      gc |-> args.gcnorm])>>
    /\ result_it' = ScannerScan(engine, fa, motifs)
    /\ cur' = [i |-> 0 - 1]
    /\ pc' = "scan_seq"
    /\ UNCHANGED <<fl, bedline, gffline, args, fa, motifs, engine, it>>

\* for i, result in enumerate(result_it): seq_id = fa.ids[i]; seq = fa[seq_id]
ScanNextSeq ==
    /\ pc = "scan_seq"
    /\ IF result_it # <<>>
       THEN /\ cur' = [i |-> cur.i + 1, seq_id |-> fa[cur.i + 2].id,
                       seq |-> FaGet(fa, fa[cur.i + 2].id),
                       zipped |-> Zip(motifs, Head(result_it))]
            /\ result_it' = Tail(result_it)
            /\ pc' = "scan_motif"
       ELSE /\ pc' = "done"
            /\ UNCHANGED <<result_it, cur>>
    /\ UNCHANGED <<fl, bedline, gffline, args, fa, motifs, engine, it, log>>

\* for motif, matches in zip(motifs, result):
ScanNextMotif ==
    /\ pc = "scan_motif"
    /\ IF cur.zipped # <<>>
       THEN /\ cur' = [i |-> cur.i, seq_id |-> cur.seq_id, seq |-> cur.seq,
                       zipped |-> Tail(cur.zipped), motif |-> Head(cur.zipped)[1],
                       matches |-> Head(cur.zipped)[2]]
            /\ pc' = "scan_matches"
       ELSE /\ pc' = "scan_seq"
            /\ UNCHANGED cur
    /\ UNCHANGED <<fl, bedline, gffline, args, fa, motifs, engine, it, log, result_it>>

\* the line of one match of the Scanner: (score, pos, strand) = match
ScanLine(seq, seq_id, motif, match, bed) ==
    format_line(seq, seq_id, motif, match[1], match[2], match[3], bed)

\* for (score, pos, strand) in matches: yield format_line(seq, seq_id, ...)
ScanYield ==
    /\ pc = "scan_matches"
    /\ IF cur.matches # <<>>
       THEN /\ log' = log \o <<Yield("scan_normal",
                   ScanLine(cur.seq, cur.seq_id, cur.motif, Head(cur.matches), args.bed))>>
            /\ cur' = [cur EXCEPT !.matches = Tail(cur.matches)]
            /\ pc' = pc
       ELSE /\ pc' = "scan_motif"
            /\ UNCHANGED <<log, cur>>
    /\ UNCHANGED <<fl, bedline, gffline, args, fa, motifs, engine, it, result_it>>

Next ==
    \/ NewScanner \/ SetGenome \/ SetBackground \/ SetThreshold \/ Dispatch
    \/ TableHeader \/ TableCallMoods \/ TableMoodsRow \/ TableCallCount \/ TableRow
    \/ ScoreSetThreshold \/ ScoreCall \/ ScoreHeader \/ ScoreRow
    \/ NormalCallMoods \/ MoodsNextMotif \/ MoodsNextItem \/ MoodsYield
    \/ NormalCallScan \/ ScanNextSeq \/ ScanNextMotif \/ ScanYield

\* ---------------------------------------------------- the invocations

\* the first n sequences / motifs of the input files
FaOf(n) == [i \in 1..n |-> SeqAt(i)]

MotifsOf(n) == [j \in 1..n |-> MotifAt(j)]

\* the lists of matches a backend reports for one (sequence, motif) pair: up
\* to MaxMatches distinct matches, in any order
HitLists ==
    {h \in UNION {[1..n -> {Hit(k) : k \in 1..MaxMatches}] : n \in 1..MaxMatches} :
        \A x, y \in 1..Len(h) : x # y => h[x] # h[y]}

CountVals == {1, 12}

\* 7.5, -1.25, 0.1234567 and 0.0000005, in units of 10^-7
ScoreVals == {75000000, 0 - 12500000, 1234567, 5}

\* What the backend can return to an invocation with arguments a over ns
\* sequences and nm motifs: the pairs with a hit, and the value there of the
\* one operation the invocation asks for.
Results(a, ns, nm) ==
    [seqs : SUBSET (1..ns), motifs : SUBSET (1..nm),
     hits : IF ~a.table /\ ~a.score_table THEN HitLists ELSE {<<Hit(1)>>},
     count : IF a.table THEN CountVals ELSE {1},
     score : IF ~a.table /\ a.score_table THEN ScoreVals ELSE {75000000}]

\* no genome, no background file, the default false-positive rate
BareConfig ==
    [genome |-> None, bgfile |-> None, cutoff |-> None, fpr |-> "0.01",
     gcnorm |-> FALSE, zscore |-> FALSE]

\* a genome, a background file, a cutoff, z-scores normalised for GC
FullConfig ==
    [genome |-> "hg38", bgfile |-> "bg.fa", cutoff |-> "0.9", fpr |-> None,
     gcnorm |-> TRUE, zscore |-> TRUE]

WithConfig(c, table, score_table, moods, bed) ==
    [table |-> table, score_table |-> score_table, moods |-> moods, bed |-> bed,
     genome |-> c.genome, bgfile |-> c.bgfile, cutoff |-> c.cutoff, fpr |-> c.fpr,
     gcnorm |-> c.gcnorm, zscore |-> c.zscore]

\* every combination of the keyword arguments of command_scan
AllArgs ==
    [table : BOOLEAN, score_table : BOOLEAN, moods : BOOLEAN, bed : BOOLEAN,
     genome : {None, "hg38"}, bgfile : {None, "bg.fa"}, cutoff : {None, "0.9"},
     fpr : {None, "0.01"}, gcnorm : BOOLEAN, zscore : BOOLEAN]

InitIdle ==
    /\ fl = None
    /\ bedline = NoLine
    /\ gffline = NoLine
    /\ pc = "start"
    /\ it = None
    /\ log = <<>>
    /\ result_it = <<>>
    /\ cur = None

\* every output mode and backend, two configurations, every backend result
\* within the bounds
InitLines ==
    /\ InitIdle
    /\ args \in {WithConfig(c, t, st, m, b) :
                    c \in {BareConfig, FullConfig}, t \in BOOLEAN, st \in BOOLEAN,
                    m \in BOOLEAN, b \in BOOLEAN}
    /\ fa \in {FaOf(n) : n \in 1..MaxSeqs}
    /\ motifs \in {MotifsOf(n) : n \in 1..MaxMotifs}
    /\ engine \in Results(args, Len(fa), Len(motifs))

\* every combination of the arguments, one backend result
InitConfig ==
    /\ InitIdle
    /\ args \in AllArgs
    /\ fa = FaOf(MaxSeqs)
    /\ motifs = MotifsOf(MaxMotifs)
    /\ engine = [seqs |-> 1..MaxSeqs, motifs |-> 1..MaxMotifs, hits |-> <<Hit(1)>>,
                 count |-> 1, score |-> 75000000]

SpecLines == InitLines /\ [][Next]_vars

SpecConfig == InitConfig /\ [][Next]_vars

\* ------------------------------------------------------ reading the log

\* the positions of the calls of op in the log
CallIdx(op) == {n \in 1..Len(log) : log[n].ev = "call" /\ log[n].op = op}

\* the positions of the yielded lines in the log
YieldIdx == {n \in 1..Len(log) : log[n].ev = "yield"}

IsYield(e) == e.ev = "yield"

\* the output so far
Lines == LET ys == SelectSeq(log, IsYield) IN [r \in 1..Len(ys) |-> ys[r].line]

IsPrefix(p, q) == Len(p) <= Len(q) /\ \A n \in 1..Len(p) : p[n] = q[n]

RECURSIVE ConcatAll(_)
ConcatAll(ss) == IF Len(ss) = 0 THEN <<>> ELSE Head(ss) \o ConcatAll(Tail(ss))

Configured == pc \notin {"format", "start", "genome", "background", "threshold"}

\* ------------------------------------------------------------------- C1

\* what the backend returned for sequence i and motif j, in its order
ReturnedMatches(i, j) ==
    IF args.moods
    THEN LET d == MoodsMatches(engine, fa, motifs)[j][2]
             ms == d[CHOOSE x \in 1..Len(d) : d[x][1] = fa[i].id][2]
         IN  [k \in 1..Len(ms) |-> [pos |-> ms[k][1], score |-> ms[k][2], strand |-> ms[k][3]]]
    ELSE LET ms == ScannerScan(engine, fa, motifs)[i][j]
         IN  [k \in 1..Len(ms) |-> [score |-> ms[k][1], pos |-> ms[k][2], strand |-> ms[k][3]]]

\* the lines of the matches of sequence i and motif j, in the backend's order
PairLines(i, j) ==
    LET ms == ReturnedMatches(i, j)
    IN  [k \in 1..Len(ms) |-> format_line(fa[i].seq, fa[i].id, motifs[j], ms[k].score,
                                          ms[k].pos, ms[k].strand, args.bed)]

\* sequence by sequence, within a sequence motif by motif
SequenceMajor ==
    ConcatAll([i \in 1..Len(fa) |-> ConcatAll([j \in 1..Len(motifs) |-> PairLines(i, j)])])

\* motif by motif, within a motif sequence by sequence
MotifMajor ==
    ConcatAll([j \in 1..Len(motifs) |-> ConcatAll([i \in 1..Len(fa) |-> PairLines(i, j)])])

ResultOps == {"count", "best_score", "scan"}

ConfigOps == {"set_motifs", "set_genome", "set_background", "set_threshold"}

\* C2 as claimed: for every combination of the flags, the motifs, the
\* background (when a genome or a background file is given) and the
\* threshold are configured before the first of count, best_score and scan
\* is called, and no configuration call follows the first output line.
C2_ConfiguredBeforeResults ==
    \A n \in 1..Len(log) :
        /\ (log[n].ev = "call" /\ log[n].op \in ResultOps) =>
               /\ \E m \in CallIdx("set_motifs") : m < n
               /\ \E m \in CallIdx("set_threshold") : m < n
               /\ (args.genome # None \/ args.bgfile # None) =>
                      \E m \in CallIdx("set_background") : m < n
        /\ (log[n].ev = "call" /\ log[n].op \in ConfigOps) =>
               \A m \in YieldIdx : n < m

\* ------------------------------------------------------------------- C5

\* the number the backend reported for sequence i and motif j
ReturnedCount(i, j) ==
    IF args.moods THEN MoodsTable(engine, fa, motifs)[i][2][j]
    ELSE ScannerCount(engine, fa, motifs)[i][j]

\* C5: in count-table and score-table mode the lines after the header are one
\* row per sequence, in the order of the collection, the i-th labelled with
\* the i-th identifier and carrying one value per motif; a count is the
\* backend's count as text, a zero included; with either backend.
C5_OneRowPerSequence ==
    it \in {"scan_table", "scan_score_table"} =>
        /\ Len(Lines) <= 1 + Len(fa)
        /\ pc = "done" => Len(Lines) = 1 + Len(fa)
        /\ \A r \in 2..Len(Lines) :
               /\ Lines[r][1] = fa[r - 1].id
               /\ Len(Lines[r]) = 1 + Len(motifs)
               /\ \A j \in 1..Len(motifs) :
                      /\ Len(Lines[r][j + 1]) >= 1
                      /\ it = "scan_table" => Lines[r][j + 1] = Str(ReturnedCount(r - 1, j))

\* a finished count table of the moods backend with a zero count in a row of
\* two values
C5_Witness ==
    /\ it = "scan_table"
    /\ args.moods
    /\ pc = "done"
    /\ Len(fa) >= 2
    /\ Len(motifs) >= 2
    /\ \E r \in 2..Len(Lines) : Lines[r][2] = <<"0">> /\ Lines[r][3] # <<"0">>

\* ------------------------------------------------------------------- C6

\* C6: in both table modes and with either backend the first line is the
\* header, an empty cell followed by the motif ids in the order of the motif
\* collection, and no later line is the header again.
C6_HeaderFirstOnce ==
    (it \in {"scan_table", "scan_score_table"} /\ Len(Lines) >= 1) =>
        /\ Len(Lines[1]) = 1 + Len(motifs)
        /\ Lines[1][1] = <<>>
        /\ \A j \in 1..Len(motifs) : Lines[1][j + 1] = motifs[j].id
        /\ \A r \in 2..Len(Lines) : Lines[r] # Lines[1]

\* a finished score table over two motifs and two sequences
C6_Witness ==
    /\ it = "scan_score_table"
    /\ pc = "done"
    /\ Len(motifs) >= 2
    /\ Len(Lines) >= 3

\* ------------------------------------------------------------------- C7

\* the number of characters after the decimal point of a rendered number
DecimalsOf(t) == Len(t) - (CHOOSE n \in 1..Len(t) : t[n] = ".")

\* C7 as claimed: every score of every row of the score table is rendered
\* with exactly 4 digits after the decimal point.
C7_FourDecimals ==
    it = "scan_score_table" =>
        \A r \in 2..Len(Lines) : \A c \in 2..Len(Lines[r]) :
            /\ \E n \in 1..Len(Lines[r][c]) : Lines[r][c][n] = "."
            /\ DecimalsOf(Lines[r][c]) = 4

\* ------------------------------------------------------------------- C8

\* C8: one generator is selected by (table, score_table): the count table
\* when table is set (also when score_table is set too), else the score
\* table when score_table is set, else the positional listing; every line
\* of the output is yielded by that generator.
C8_OneStrategy ==
    /\ Configured /\ pc # "dispatch" => it \in {"scan_table", "scan_score_table", "scan_normal"}
    /\ it # None =>
           /\ args.table => it = "scan_table"
           /\ (~args.table /\ args.score_table) => it = "scan_score_table"
           /\ (~args.table /\ ~args.score_table) => it = "scan_normal"
    /\ \A n \in YieldIdx : it # None /\ log[n].by = it

\* a finished run with both table and score_table set
C8_Witness ==
    /\ args.table
    /\ args.score_table
    /\ pc = "done"
    /\ Len(Lines) >= 2

\* ------------------------------------------------------------------- C9

\* C9: in score-table mode the only set_threshold call of the invocation
\* sets threshold 0.0 (none carries the false-positive rate or the cutoff),
\* and it precedes the best_score call and every line.
C9_ScoreTableThreshold ==
    (args.score_table /\ ~args.table) =>
        /\ Cardinality(CallIdx("set_threshold")) <= 1
        /\ \A n \in CallIdx("set_threshold") :
               /\ log[n].kw.threshold = "0.0"
               /\ "fpr" \notin DOMAIN log[n].kw
        /\ \A n \in CallIdx("best_score") \cup YieldIdx :
               \E m \in CallIdx("set_threshold") : m < n

\* a finished score table of an invocation given both a cutoff and a
\* false-positive rate
C9_Witness ==
    /\ args.score_table
    /\ ~args.table
    /\ args.cutoff # None
    /\ args.fpr # None
    /\ pc = "done"
    /\ Len(Lines) >= 2

\* ------------------------------------------------------------------ C10

\* C10 as claimed: whenever a genome is given, with or without a background
\* file, the last set_background call made before the first result is pulled
\* passes the genome, the median sequence length as size and the caller's
\* GC-normalization flag (a call that passes no gc at all is accepted when no
\* GC normalization was requested).
C10_GenomeBackgroundLast ==
    (args.genome # None /\ Configured) =>
        /\ CallIdx("set_background") # {}
        /\ LET last == CHOOSE n \in CallIdx("set_background") :
                           \A m \in CallIdx("set_background") : m <= n
               kw == log[last].kw
           IN  /\ kw.genome = args.genome
               /\ kw.size = "fa.median_length()"
               /\ args.gcnorm => "gc" \in DOMAIN kw
               /\ "gc" \in DOMAIN kw => kw.gc = args.gcnorm

\* ------------------------------------------------------------------- C3

\* the start of the locus format_line reads from an identifier, 0 when it
\* reads none
LocusStart(seq_id) ==
    LET m == SeqPSearch(seq_id) IN IF m.found THEN m.start ELSE 0

\* C3 as claimed: for the same match on the same identifier, the start of the
\* annotation line is the start of the BED line plus 1, for every identifier.
C3_GffStartIsBedStartPlusOne ==
    (bedline # NoLine /\ gffline # NoLine) =>
        gffline[4] = Str(ParseInt(bedline[2]) + 1)

\* C3 amended: the start of the annotation line is local, pos + 1, while the
\* BED start is shifted by the start of the locus read from the identifier:
\* annotation start = BED start - locus start + 1, which is BED start + 1
\* exactly when no locus is read or the locus starts at 0.
C3_GffStartIsLocal ==
    (bedline # NoLine /\ gffline # NoLine) =>
        /\ gffline[4] = Str(fl.hit.pos + 1)
        /\ ParseInt(gffline[4]) = ParseInt(bedline[2]) - LocusStart(fl.seq_id) + 1

\* both lines of a match on an identifier that holds a locus starting after 0
C3_Witness ==
    /\ bedline # NoLine
    /\ gffline # NoLine
    /\ fl.seq_id = <<"c", ":", "1", "1", "-", "1">>
    /\ fl.hit.pos = 1
    /\ bedline[2] = <<"1", "2">>
    /\ gffline[4] = <<"2">>

\* ------------------------------------------------------------------- C4

\* s[i..t] is a token, s[t+1] the colon, s[t+2..d] digits, s[d+1] the dash and
\* s[d+2] a digit: the pattern occurs in s from i on
OccursAt(s, i, t, d) ==
    /\ 1 <= i /\ i <= t
    /\ \A x \in i..t : IsTokenChar(s[x])
    /\ t + 2 <= d /\ d + 2 <= Len(s)
    /\ s[t + 1] = ":"
    /\ \A x \in (t + 2)..d : IsDigit(s[x])
    /\ s[d + 1] = "-"
    /\ IsDigit(s[d + 2])

\* the whole of s is <token>:<integer>-<integer>
WholeShape(s) ==
    \E t, d \in 1..Len(s) :
        OccursAt(s, 1, t, d) /\ \A x \in (d + 2)..Len(s) : IsDigit(s[x])

\* the first three cells of the BED line of the match fl.hit read with
\* chromosome chrom and offset start
BedCells(chrom, start) ==
    <<chrom, Str(start + fl.hit.pos), Str(start + fl.hit.pos + fl.motif.len)>>

\* C4 as claimed: the identifier is read as a locus if and only if the whole
\* identifier has the shape <token>:<integer>-<integer>; every other
\* identifier is emitted unmodified with start = pos, end = pos + len(motif).
C4_LocusIffWholeShape ==
    bedline # NoLine =>
        LET s == fl.seq_id
        IN  IF WholeShape(s)
            THEN \E t, d \in 1..Len(s) :
                     /\ OccursAt(s, 1, t, d)
                     /\ SubSeq(bedline, 1, 3)
                            = BedCells(SubSeq(s, 1, t), ParseInt(SubSeq(s, t + 2, d)))
            ELSE SubSeq(bedline, 1, 3) = BedCells(s, 0)

\* C4 amended: the identifier is read as a locus if and only if the pattern
\* <token>:<integer>-<integer> occurs somewhere in it; chrom is then the
\* token of the leftmost occurrence and start the integer before the dash,
\* whatever text precedes or follows; an identifier in which the pattern does
\* not occur is emitted unmodified with start = pos, end = pos + len(motif).
C4_LocusIffPatternOccurs ==
    bedline # NoLine =>
        LET s == fl.seq_id
            I == 1..Len(s)
        IN  IF \E i, t, d \in I : OccursAt(s, i, t, d)
            THEN \E i, t, d \in I :
                     /\ OccursAt(s, i, t, d)
                     /\ \A i2, t2, d2 \in I : OccursAt(s, i2, t2, d2) => i <= i2
                     /\ SubSeq(bedline, 1, 3)
                            = BedCells(SubSeq(s, i, t), ParseInt(SubSeq(s, t + 2, d)))
            ELSE SubSeq(bedline, 1, 3) = BedCells(s, 0)

\* a BED line of an identifier with a blank before the locus
C4_Witness ==
    /\ bedline # NoLine
    /\ fl.seq_id = <<" ", "c", ":", "1", "-", "1">>
    /\ bedline[1] = <<"c">>
    /\ fl.hit.pos = 1
    /\ bedline[2] = <<"2">>

====
